---- MODULE Spec2Model ----
(***************************************************************************)
(* Model of the parameter-estimation engine of xspec.                      *)
(*                                                                         *)
(*   src/xspec/estimate.py : fit_cell, Estimate.add_data, Estimate.fit     *)
(*   src/xspec/paramSE.py  : the component models' bound-clamping getters, *)
(*                           param_based_spec_estimate_cell,               *)
(*                           param_based_spec_estimate,                    *)
(*                           interp_src_spectra, Source_Model.forward,     *)
(*                           spec_distrb_energy_resp.forward               *)
(*   both files            : init_logging, the enumeration of the cases    *)
(*                                                                         *)
(* The two entry points share one structure (a pool of worker processes,   *)
(* one fit loop per case, argmin over the gathered costs); impl records    *)
(* which one runs, and the operators branch on it where the two differ.    *)
(*                                                                         *)
(* Real numbers are kept on a grid: a normalized parameter n stands for    *)
(* n / Den, so the interval [0,1] of the source is 0..Den here, and a      *)
(* physical value v is kept as v * Den.  A cost is a pair <<tag, value>>   *)
(* with tag "fin", "inf" or "nan" (IEEE-754 floats as torch/numpy use).    *)
(*                                                                         *)
(* The composite cost (closure) and its gradient are evaluated by torch on *)
(* data this model does not hold: the cost and the finiteness of the       *)
(* gradient at the current parameter are an oracle, fixed as long as the   *)
(* clamped parameter does not change (the forward model reads parameters   *)
(* only through the clamping getters) and drawn anew when it does.  The    *)
(* optimizers (torch.optim.Adam, FullBatchLBFGS) are external: a step      *)
(* moves the raw parameter by any amount of at most MaxStep grid points.   *)
(*                                                                         *)
(* Spec and SpecFit are runs of the engine.  The enumeration of the cases  *)
(* (SpecEnum), init_logging (SpecLog), the reference-spectrum look-up      *)
(* (SpecInterp) and the renormalised composite response (SpecResp) are     *)
(* functions of their arguments: each has variables and a specification of *)
(* its own, which draws the arguments in its initial state and applies the *)
(* function.  SpecShare follows the Parameter objects of a fit over        *)
(* several datasets, and SpecData the lists Estimate.add_data fills.       *)
(***************************************************************************)
EXTENDS Integers, Sequences, FiniteSets, TLC

\* ---------------------------------------------------------------- bounds
Den      == 2   \* grid points per unit of a normalized parameter
Over     == 1   \* how far (grid points) a raw parameter may leave [0,1]
MaxStep  == 2   \* largest move of one optimizer step, in grid points
MaxCost  == 2   \* finite costs are 1..MaxCost
MaxIter  == 2   \* largest max_iterations
MaxThr   == 1   \* largest stop_threshold, in grid points
MaxCases == 2   \* largest number of enumerated cases
MaxProcs == 2   \* largest num_processes

NRange   == (0 - Over)..(Den + Over)
Cases    == 1..MaxCases
Workers  == 1..MaxProcs

\* ------------------------------------------------------- IEEE-754 costs
NaN      == <<"nan", 0>>
Inf      == <<"inf", 0>>
Fin(v)   == <<"fin", v>>
CostVals == {Fin(v) : v \in 1..MaxCost} \cup {NaN, Inf}

\* torch.isnan
isnan(c)    == c[1] = "nan"
IsFinite(c) == c[1] = "fin"

\* a < b on floats: false as soon as one side is NaN
FLt(a, b) ==
    /\ ~isnan(a) /\ ~isnan(b)
    /\ \/ IsFinite(a) /\ IsFinite(b) /\ a[2] < b[2]
       \/ IsFinite(a) /\ b = Inf

\* a <= b on floats
FLe(a, b) == ~isnan(a) /\ ~isnan(b) /\ (a = b \/ FLt(a, b))

\* ------------------------------------------------ bound-clamping getters
\* a clamp that forgets the upper end
Clamp01NoUpper(n) == IF n < 0 THEN 0 ELSE n

\* torch.clamp(n, 0, 1) on the grid
Clamp01(n) == IF n < 0 THEN 0 ELSE IF n > Den THEN Den ELSE n

\* The Bounds a parameter is given: lower < upper (physical units).  A Bound
\* is read by the getters only, so the properties quantify over BoundSet.
BoundSet == {[lower |-> 0, upper |-> 1], [lower |-> 1, upper |-> 3]}

\* Source_Model.get_voltage:
\*   torch.clamp(normalized_voltage, 0, 1) * volt_scale + volt_lower
\* (every getter returns the physical value times Den)
get_voltage(normalized_voltage, b) ==
    LET volt_lower == b.lower
        volt_scale == b.upper - b.lower
    IN Clamp01(normalized_voltage) * volt_scale + volt_lower * Den

\* Source_Model.get_takeoff_angle
get_takeoff_angle(normalized_takeoff_angle, b) ==
    LET toa_lower == b.lower
        toa_scale == b.upper - b.lower
    IN Clamp01(normalized_takeoff_angle) * toa_scale + toa_lower * Den

\* Filter_Model.get_fltr_th
get_fltr_th(normalized_fltr_th, b) ==
    LET lower == b.lower
        scale == b.upper - b.lower
    IN Clamp01(normalized_fltr_th) * scale + lower * Den

\* Scintillator_Model.get_scint_th
get_scint_th(normalized_scint_th, b) ==
    LET lower == b.lower
        scale == b.upper - b.lower
    IN Clamp01(normalized_scint_th) * scale + lower * Den

\* ----------------------------------------------------------- configuration
OptimizerTypes == {"Adam", "NNAT_LBFGS", "SGD"}
LossTypes      == {"transmission", "wmse", "huber"}
Impls          == {"estimate", "paramSE"}

\* the optimizer_type branches of fit_cell / param_based_spec_estimate_cell
OptimizerSupported(ot) == ot = "Adam" \/ ot = "NNAT_LBFGS"

\* the loss_type branches of the two closures
LossSupported(im, lt) ==
    IF im = "estimate" THEN lt \in {"transmission", "attmse"}
                       ELSE lt \in {"mse", "wmse", "attmse"}

\* Source_Model.forward reads self.voltage, an attribute Source_Model never
\* sets (it has normalized_voltage and get_voltage()): torch.nn.Module raises
\* AttributeError, so the composite model of param_based_spec_estimate_cell
\* raises whenever it is evaluated
ForwardRaises(im) == im = "paramSE"

\* closure(): the composite forward model, then the loss_type branches
ClosureRaises(im, lt) == ForwardRaises(im) \/ ~LossSupported(im, lt)

VARIABLES
    impl,            \* which entry point runs: Estimate.fit or param_based_spec_estimate
    optimizer_type, loss_type, stop_threshold, max_iterations, num_processes,
    ncases,          \* len(merged_params_list) / len(model_params_list)
    dpc,             \* dispatcher: "start", "gather", "done", "raised"
    gathered,        \* how many r.get() calls have returned
    best,            \* optimal_cost_ind + 1, 0 before the selection
    est_params,      \* <<>> while unset, else <<Estimate.params, the estimates of its models>>
    inqueue,         \* the pool's task queue
    wstate,          \* per worker process: "none", "idle", "busy", "dead", "terminated"
    wtask,           \* the task a busy worker runs
    tstat,           \* per task: "new", "queued", "running", "ready", "error", "lost"
    fstate,          \* per case: state of the fit loop
    iter,            \* per case: the loop variable iter
    parameters,      \* per case: the raw normalized parameter
    cur_cost,        \* per case: closure() at the current parameter
    cur_grad_bad,    \* per case: some gradient at the current parameter is non-finite
    steps,           \* per case: number of optimizer.step() calls made
    result           \* per case: <<>> or <<stop_iter, cost, params>>

cfgVars  == <<impl, optimizer_type, loss_type, stop_threshold, max_iterations,
              num_processes, ncases>>
dispVars == <<dpc, gathered, best, est_params>>
poolVars == <<inqueue, wstate, wtask, tstat>>
fitVars  == <<fstate, iter, parameters, cur_cost, cur_grad_bad, steps, result>>

\* the library functions the engine calls are modelled on inputs of their own
VARIABLES
    filters,           \* per filter slot: Filter.possible_mat
    scintillators,     \* per scintillator slot: Scintillator.possible_mat
    model_params_list, \* the enumerated cases, <<>> before the enumeration
    result_objects,    \* one entry per pool.apply_async call, <<>> before
    logpath,           \* the filename init_logging is given: "None" or a path
    log_pid,           \* per pool process: mp.current_process().pid
    log_handler,       \* per pool process: <<>>, or the logger and handler set up
    voltage_list,      \* Source.src_voltage_list: the reference voltages
    src_spec_list,     \* Source.src_spec_list: one spectrum per reference voltage
    interp_voltage,    \* the query voltage, in units of 1 / Den
    torch_mode,        \* the torch_mode argument of interp_src_spectra
    interp_out,        \* <<>>, or what the call of interp_src_spectra did
    fwd_out,           \* <<>>, or what the call of Source_Model.forward did
    src_func,          \* the source spectrum on the energy grid, <<>> when none is looked at
    fltr_func,         \* the product of the filter responses on the energy grid
    scint_func,        \* the scintillator response on the energy grid
    resp_out,          \* <<>>, or what the evaluation of the composite response did
    model_combination, \* per dataset: the index of the component model (src_ind, say) it uses
    cm_param,          \* per dataset: the Parameter object its component model holds
    param_data,        \* per Parameter object: its value, the normalized parameter
    opt_params,        \* the list of Parameter objects handed to the optimizer
    share_pc,          \* "idle", "built", "evaluated", "stepped" or "raised"
    trans_reads,       \* per dataset: the Parameter and the value its prediction was computed from
    nupdates,          \* per Parameter object: how often optimizer steps have updated it
    nsteps,            \* the number of optimizer steps taken
    nrads,             \* Estimate.nrads: one column of samples per dataset
    forward_matrices,  \* Estimate.forward_matrices
    spec_models,       \* Estimate.spec_models: the component models of each dataset
    weights,           \* Estimate.weights: one column of weights per dataset
    num_sp_datasets,   \* Estimate.num_sp_datasets, "unset" until add_data sets it
    add_calls          \* the arguments of the add_data calls made so far, in order


enumVars   == <<filters, scintillators, model_params_list, result_objects>>
logVars    == <<logpath, log_pid, log_handler>>
interpVars == <<voltage_list, src_spec_list, interp_voltage, torch_mode, interp_out, fwd_out>>
respVars   == <<src_func, fltr_func, scint_func, resp_out>>
shareVars  == <<model_combination, cm_param, param_data, opt_params, share_pc, trans_reads, nupdates, nsteps>>
dataVars   == <<nrads, forward_matrices, spec_models, weights, num_sp_datasets, add_calls>>
auxVars    == <<enumVars, logVars, interpVars, respVars, shareVars, dataVars>>
vars     == <<cfgVars, dispVars, poolVars, fitVars, auxVars>>

FitTerminal == {"Converged", "MaxIterationsReached", "Diverged"}

\* ------------------------------------------------------------------ Init
\* the state of every run before the dispatcher is called
InitRun ==
    /\ dpc = "start"
    /\ gathered = 0
    /\ best = 0
    /\ est_params = <<>>
    /\ inqueue = <<>>
    /\ wstate = [w \in Workers |-> "none"]
    /\ wtask = [w \in Workers |-> 0]
    /\ tstat = [i \in Cases |-> "new"]
    /\ fstate = [i \in Cases |-> "Initialized"]
    /\ iter = [i \in Cases |-> 0]
    /\ cur_cost = [i \in Cases |-> Inf]
    /\ cur_grad_bad = [i \in Cases |-> FALSE]
    /\ steps = [i \in Cases |-> 0]
    /\ result = [i \in Cases |-> <<>>]

\* no enumeration is under way
EnumIdle ==
    /\ filters = <<>>
    /\ scintillators = <<>>
    /\ model_params_list = <<>>
    /\ result_objects = <<>>

\* no pool process is setting up its logger
LogIdle ==
    /\ logpath = "None"
    /\ log_pid = [w \in Workers |-> 0]
    /\ log_handler = [w \in Workers |-> <<>>]

\* no spectrum is being looked up
InterpIdle ==
    /\ voltage_list = <<>>
    /\ src_spec_list = <<>>
    /\ interp_voltage = 0
    /\ torch_mode = TRUE
    /\ interp_out = <<>>
    /\ fwd_out = <<>>

\* no composite response is being evaluated
RespIdle ==
    /\ src_func = <<>>
    /\ fltr_func = <<>>
    /\ scint_func = <<>>
    /\ resp_out = <<>>

\* no several-dataset model is being looked at
ShareIdle ==
    /\ model_combination = <<>>
    /\ cm_param = <<>>
    /\ param_data = <<>>
    /\ opt_params = <<>>
    /\ share_pc = "idle"
    /\ trans_reads = <<>>
    /\ nupdates = <<>>
    /\ nsteps = 0

\* no Estimate object is being filled
DataIdle ==
    /\ nrads = <<>>
    /\ forward_matrices = <<>>
    /\ spec_models = <<>>
    /\ weights = <<>>
    /\ num_sp_datasets = "unset"
    /\ add_calls = <<>>

AuxIdle == EnumIdle /\ LogIdle /\ InterpIdle /\ RespIdle /\ ShareIdle /\ DataIdle

\* a run of one case, over every configuration and every fit-loop setting
InitFit ==
    /\ impl \in Impls
    /\ optimizer_type \in OptimizerTypes
    /\ loss_type \in LossTypes
    /\ stop_threshold \in 0..MaxThr
    /\ max_iterations \in 1..MaxIter
    /\ num_processes \in 1..MaxProcs
    /\ ncases = 1
    /\ parameters \in [Cases -> NRange]
    /\ \A i \in Cases : i > ncases => parameters[i] = 0
    /\ InitRun
    /\ AuxIdle

\* a run of several cases on the pool, over every configuration
Init ==
    /\ impl \in Impls
    /\ optimizer_type \in OptimizerTypes
    /\ loss_type \in LossTypes
    /\ stop_threshold \in 0..MaxThr
    /\ max_iterations \in 1..MaxIter
    /\ num_processes \in 1..MaxProcs
    /\ ncases \in 1..MaxCases
    /\ parameters = [i \in Cases |-> 0]
    /\ InitRun
    /\ AuxIdle

\* ------------------------------------------------------------- dispatcher
\* Pool(processes=num_processes, ...) and the list of pool.apply_async calls
Submit ==
    /\ dpc = "start"
    /\ dpc' = "gather"
    /\ wstate' = [w \in Workers |-> IF w <= num_processes THEN "idle" ELSE "none"]
    /\ inqueue' = [k \in 1..ncases |-> k]
    /\ tstat' = [i \in Cases |-> IF i <= ncases THEN "queued" ELSE "new"]
    /\ UNCHANGED <<auxVars, cfgVars, gathered, best, est_params, wtask, fitVars>>

\* np.argmax in place of np.argmin
ArgMax(cl) ==
    CHOOSE k \in 1..Len(cl) :
        /\ \A j \in 1..Len(cl) : ~FLt(cl[k], cl[j])
        /\ \A j \in 1..(k - 1) : FLt(cl[j], cl[k])

\* np.argmin(cost_list): the first NaN if there is one, else the first minimum
ArgMin(cl) ==
    IF \E k \in 1..Len(cl) : isnan(cl[k])
    THEN CHOOSE k \in 1..Len(cl) :
             isnan(cl[k]) /\ \A j \in 1..(k - 1) : ~isnan(cl[j])
    ELSE CHOOSE k \in 1..Len(cl) :
             /\ \A j \in 1..Len(cl) : ~FLt(cl[j], cl[k])
             /\ \A j \in 1..(k - 1) : FLt(cl[k], cl[j])

\* the result objects read from the last submitted to the first
LastSubmittedFirst(k) == ncases + 1 - k

\* result_objects[k] is the AsyncResult of the k-th pool.apply_async call,
\* the one made for the k-th case of the list, and r.get() returns the value
\* of that task: the case whose result the k-th get() returns
TaskOf(k) == k

\* results = [r.get() for r in result_objects]: its k-th entry
results(k) == result[TaskOf(k)]

\* cost_list = [res[1] for res in results]
cost_list == [k \in 1..ncases |-> results(k)[2]]

\* leaving the "with Pool(...)" block terminates the pool's processes
PoolExit == [w \in Workers |-> IF wstate[w] = "none" THEN "none" ELSE "terminated"]

\* a get() that does not wait for the task to end
ResultReadyEarly(ts) == ts \in {"ready", "running"}

\* r.get() blocks until the task has ended and returns once its result is there
ResultReady(ts) == ts = "ready"

\* results = [r.get() for r in result_objects]: the next result is there
GatherResult ==
    /\ dpc = "gather"
    /\ gathered < ncases
    /\ ResultReady(tstat[TaskOf(gathered + 1)])
    /\ gathered' = gathered + 1
    /\ UNCHANGED <<auxVars, cfgVars, dpc, best, est_params, poolVars, fitVars>>

\* r.get() re-raises the exception the task ended with
GatherError ==
    /\ dpc = "gather"
    /\ gathered < ncases
    /\ tstat[TaskOf(gathered + 1)] = "error"
    /\ dpc' = "raised"
    /\ wstate' = PoolExit
    /\ UNCHANGED <<auxVars, cfgVars, gathered, best, est_params, inqueue, wtask, tstat, fitVars>>

\* Estimate.fit, lines 276-279: self.params = best_params, then
\* cm.set_estimates(best_params) for every component model of every dataset
\* that add_data has stored: <<self.params, what the models were set to>>
set_best(best_params) == <<best_params, best_params>>

\* np.argmin over the gathered costs; Estimate.fit stores the best params
Select ==
    /\ dpc = "gather"
    /\ gathered = ncases
    /\ dpc' = "done"
    /\ wstate' = PoolExit
    /\ best' = ArgMin(cost_list)
    /\ est_params' = IF impl = "estimate" THEN set_best(results(best')[3]) ELSE est_params
    /\ UNCHANGED <<auxVars, cfgVars, gathered, inqueue, wtask, tstat, fitVars>>

\* ------------------------------------------------------------ worker pool
\* A worker takes the next task and runs the cell up to its loop: the
\* optimizer_type branches; sys.exit() raises SystemExit, which the pool's
\* worker loop does not catch: the process ends and its task has no result.
StartCase(w) ==
    /\ dpc = "gather"
    /\ wstate[w] = "idle"
    /\ inqueue # <<>>
    /\ LET i == Head(inqueue) IN
       /\ inqueue' = Tail(inqueue)
       /\ IF OptimizerSupported(optimizer_type)
          THEN /\ wstate' = [wstate EXCEPT ![w] = "busy"]
               /\ wtask' = [wtask EXCEPT ![w] = i]
               /\ tstat' = [tstat EXCEPT ![i] = "running"]
               /\ fstate' = [fstate EXCEPT ![i] = "Iterating"]
               /\ IF ~ClosureRaises(impl, loss_type)
                  THEN \E c \in CostVals, g \in BOOLEAN :
                          /\ cur_cost' = [cur_cost EXCEPT ![i] = c]
                          /\ cur_grad_bad' = [cur_grad_bad EXCEPT ![i] = g]
                  ELSE UNCHANGED <<cur_cost, cur_grad_bad>>
          ELSE /\ wstate' = [wstate EXCEPT ![w] = "dead"]
               /\ tstat' = [tstat EXCEPT ![i] = "lost"]
               /\ fstate' = [fstate EXCEPT ![i] = "Exited"]
               /\ UNCHANGED <<wtask, cur_cost, cur_grad_bad>>
    /\ UNCHANGED <<auxVars, cfgVars, dispVars, iter, parameters, steps, result>>

\* the pool replaces a worker process that has exited
Repopulate(w) ==
    /\ dpc = "gather"
    /\ wstate[w] = "dead"
    /\ wstate' = [wstate EXCEPT ![w] = "idle"]
    /\ UNCHANGED <<auxVars, cfgVars, dispVars, inqueue, wtask, tstat, fitVars>>

\* ---------------------------------------------------------------- fit loop
\* every case fitting the caller's one model
SharedModel(i) == 1

\* the model whose parameters case i optimizes: its own copy (fit_cell
\* deep-copies spec_models and params, param_based_spec_estimate_cell builds
\* a new spec_distrb_energy_resp)
ModelOf(i) == i

\* the small-update test after the step: fit_cell compares the clamped
\* normalized values, param_based_spec_estimate_cell the raw state_dict values
SmallUpdate(im, old, new, thr) ==
    LET a == IF im = "estimate" THEN Clamp01(new) - Clamp01(old) ELSE new - old
        norm == IF a < 0 THEN 0 - a ELSE a
    IN ~(norm > thr)

\* check_gradients_for_nan over the component models of case i: some
\* gradient is non-finite
check_gradients_for_nan(i) == cur_grad_bad[i]

\* the cost a diverged case returns: closure().item(), a second evaluation
\* of the cost at the unchanged parameters
DivergedCost(i) == cur_cost[i]

\* the loop variable cost after the step: Adam keeps the cost evaluated
\* before the step, FullBatchLBFGS.step returns the cost after it
CostAfterStep(ot, before, after) == IF ot = "NNAT_LBFGS" THEN after ELSE before

\* "for iter in range(1, max_iterations + 1)" with one pass too many
LoopEndsLate(it, mx) == it = mx + 1

\* "for iter in range(1, max_iterations + 1)": pass it is the last one
LoopEnds(it, mx) == it = mx

\* a diverged cell raising instead of returning
DivergedRaises == "error"

\* how the task of a diverged cell ends: "return iter, closure().item(), ..."
\* is an ordinary return value
DivergedTaskStatus == "ready"

\* the task ends with a return value: the worker posts it and is free again
Return(w, i, st, it, res, ts) ==
    /\ fstate' = [fstate EXCEPT ![i] = st]
    /\ iter' = [iter EXCEPT ![i] = it]
    /\ result' = [result EXCEPT ![i] = res]
    /\ tstat' = [tstat EXCEPT ![i] = ts]
    /\ wstate' = [wstate EXCEPT ![w] = "idle"]
    /\ wtask' = [wtask EXCEPT ![w] = 0]

\* the parameters as a step of the largest size would leave them
SteppedParams(i) == parameters[ModelOf(i)] + MaxStep

\* the early return of a diverged case hands back params (the model, in
\* paramSE) as it stands: no optimizer.step() has run in this iteration
DivergedParams(i) == parameters[ModelOf(i)]

\* one pass of "for iter in range(1, max_iterations + 1)"
Iterate(w) ==
    /\ wstate[w] = "busy"
    /\ LET i == wtask[w]
           it == iter[i] + 1
       IN
       /\ fstate[i] = "Iterating"
       /\ IF ClosureRaises(impl, loss_type)
          THEN \* closure() raises: the task ends with the exception
               /\ fstate' = [fstate EXCEPT ![i] = "Raised"]
               /\ iter' = [iter EXCEPT ![i] = it]
               /\ tstat' = [tstat EXCEPT ![i] = "error"]
               /\ wstate' = [wstate EXCEPT ![w] = "idle"]
               /\ wtask' = [wtask EXCEPT ![w] = 0]
               /\ UNCHANGED <<parameters, cur_cost, cur_grad_bad, steps, result>>
          ELSE IF isnan(cur_cost[i]) \/ check_gradients_for_nan(i)
          THEN \* torch.isnan(cost) or check_gradients_for_nan: return early
               /\ Return(w, i, "Diverged", it, <<it, DivergedCost(i), DivergedParams(i)>>,
                         DivergedTaskStatus)
               /\ cur_grad_bad' = [cur_grad_bad EXCEPT ![i] = FALSE]
               /\ UNCHANGED <<parameters, cur_cost, steps>>
          ELSE \* optimizer.step(): the parameter moves to n, where the cost
               \* is c and the gradient is non-finite iff g.  The line search
               \* of FullBatchLBFGS accepts a point of finite cost only.
               \E n \in NRange, c \in CostVals, g \in BOOLEAN :
               /\ n - parameters[ModelOf(i)] \in (0 - MaxStep)..MaxStep
               /\ Clamp01(n) = Clamp01(parameters[ModelOf(i)]) => c = cur_cost[i] /\ g = cur_grad_bad[i]
               /\ optimizer_type = "NNAT_LBFGS" => IsFinite(c)
               /\ parameters' = [parameters EXCEPT ![ModelOf(i)] = n]
               /\ cur_cost' = [cur_cost EXCEPT ![i] = c]
               /\ steps' = [steps EXCEPT ![i] = @ + 1]
               /\ LET cost == CostAfterStep(optimizer_type, cur_cost[i], c) IN
                  IF SmallUpdate(impl, parameters[ModelOf(i)], n, stop_threshold)
                  THEN /\ Return(w, i, "Converged", it, <<it, cost, n>>, "ready")
                       /\ cur_grad_bad' = [cur_grad_bad EXCEPT ![i] = FALSE]
                  ELSE IF LoopEnds(it, max_iterations)
                  THEN /\ Return(w, i, "MaxIterationsReached", it, <<it, cost, n>>, "ready")
                       /\ cur_grad_bad' = [cur_grad_bad EXCEPT ![i] = FALSE]
                  ELSE /\ iter' = [iter EXCEPT ![i] = it]
                       /\ cur_grad_bad' = [cur_grad_bad EXCEPT ![i] = g]
                       /\ UNCHANGED <<fstate, result, tstat, wstate, wtask>>
    /\ UNCHANGED <<auxVars, cfgVars, dispVars, inqueue>>

Next ==
    \/ Submit
    \/ GatherResult
    \/ GatherError
    \/ Select
    \/ \E w \in Workers : StartCase(w)
    \/ \E w \in Workers : Repopulate(w)
    \/ \E w \in Workers : Iterate(w)

Spec == Init /\ [][Next]_vars

SpecFit == InitFit /\ [][Next]_vars

\* ============================================================== enumerator
MaxSlots == 2   \* most filter slots, and most scintillator slots
MaxMat   == 2   \* most candidate materials of one slot

\* the settings of the run while a library function is looked at on its own
RunIdle ==
    /\ optimizer_type = "Adam"
    /\ loss_type = "transmission"
    /\ stop_threshold = 0
    /\ max_iterations = 1
    /\ ncases = 1
    /\ parameters = [i \in Cases |-> 0]
    /\ InitRun

\* possible_mat of each slot of one kind: 1..MaxSlots slots, each with
\* 1..MaxMat candidate materials (a material is named by its position)
SlotLists ==
    UNION {[1..n -> {[j \in 1..k |-> j] : k \in 1..MaxMat}] : n \in 1..MaxSlots}

\* Filter.next_psb_fltr_mat: one Filter per candidate material of the slot,
\* bound to that material, in the order of possible_mat
next_psb_fltr_mat(s, possible_mat) ==
    [j \in 1..Len(possible_mat) |-> [kind |-> "filter", slot |-> s, mat |-> possible_mat[j]]]

\* Scintillator.next_psb_scint_mat
next_psb_scint_mat(s, possible_mat) ==
    [j \in 1..Len(possible_mat) |-> [kind |-> "scintillator", slot |-> s, mat |-> possible_mat[j]]]

\* possible_filters_combinations, possible_scintilators_combinations
possible_filters_combinations ==
    [s \in 1..Len(filters) |-> next_psb_fltr_mat(s, filters[s])]
possible_scintilators_combinations ==
    [s \in 1..Len(scintillators) |-> next_psb_scint_mat(s, scintillators[s])]

\* zip in place of itertools.product
zip_slots(lists) ==
    LET n == CHOOSE m \in 0..MaxMat :
                /\ \A s \in 1..Len(lists) : Len(lists[s]) >= m
                /\ \E s \in 1..Len(lists) : Len(lists[s]) = m
    IN [k \in 1..n |-> [s \in 1..Len(lists) |-> lists[s][k]]]

\* the product of the lengths of the lists
RECURSIVE SeqProd(_)
SeqProd(q) == IF q = <<>> THEN 1 ELSE Len(Head(q)) * SeqProd(Tail(q))

\* list(itertools.product(*lists)): every combination of one element per
\* list, in odometer order (the last list varies fastest): in the k-th
\* combination the element of list s advances once every
\* SeqProd(lists after s) combinations
product(lists) ==
    [k \in 1..SeqProd(lists) |->
        [s \in 1..Len(lists) |->
            lists[s][(((k - 1) \div SeqProd(SubSeq(lists, s + 1, Len(lists))))
                        % Len(lists[s])) + 1]]]

\* nested_list(l, lens): the flat tuple regrouped into [filters, scintillators]
nested_list(l, lens) ==
    <<SubSeq(l, 1, lens[1]), SubSeq(l, lens[1] + 1, lens[1] + lens[2])>>

\* get_merged_params_list: one params per combination of the discrete choices
get_merged_params_list(lists) == product(lists)

InitEnum ==
    /\ impl \in Impls
    /\ num_processes = 1
    /\ RunIdle
    /\ DataIdle
    /\ ShareIdle
    /\ RespIdle
    /\ filters \in SlotLists
    /\ scintillators \in SlotLists
    /\ model_params_list = <<>>
    /\ result_objects = <<>>
    /\ LogIdle
    /\ InterpIdle

\* param_based_spec_estimate: product over the slots, then the regrouping
EnumerateCases ==
    /\ impl = "paramSE"
    /\ model_params_list = <<>>
    /\ LET pl == product(possible_filters_combinations \o possible_scintilators_combinations)
           lens == <<Len(possible_filters_combinations), Len(possible_scintilators_combinations)>>
       IN model_params_list' = [k \in 1..Len(pl) |-> nested_list(pl[k], lens)]
    /\ UNCHANGED <<cfgVars, dispVars, poolVars, fitVars, dataVars, shareVars, respVars, logVars, interpVars, filters, scintillators, result_objects>>

\* Estimate.fit: merged_params_list
MergeParams ==
    /\ impl = "estimate"
    /\ model_params_list = <<>>
    /\ model_params_list' =
          get_merged_params_list(possible_filters_combinations \o possible_scintilators_combinations)
    /\ UNCHANGED <<cfgVars, dispVars, poolVars, fitVars, dataVars, shareVars, respVars, logVars, interpVars, filters, scintillators, result_objects>>

\* result_objects = [pool.apply_async(...) for ... in model_params_list]
SubmitCases ==
    /\ model_params_list # <<>>
    /\ result_objects = <<>>
    /\ result_objects' = [k \in 1..Len(model_params_list) |-> model_params_list[k]]
    /\ UNCHANGED <<cfgVars, dispVars, poolVars, fitVars, dataVars, shareVars, respVars, logVars, interpVars, filters, scintillators, model_params_list>>

NextEnum == EnumerateCases \/ MergeParams \/ SubmitCases

SpecEnum == InitEnum /\ [][NextEnum]_vars

\* ================================================================= logging
MaxPid == 3   \* process ids are 1..MaxPid

\* init_logging of estimate.py: the log file of the process with pid worker_id
LogFileEstimate(filename, worker_id, np) == <<filename, worker_id % np>>

\* init_logging of paramSE.py: f"{filename}_{worker_id}.log"
LogFileParamSE(filename, worker_id, np) == <<filename, worker_id>>

\* the handler init_logging adds: a StreamHandler when filename is None,
\* else a FileHandler on the file named after the process
LogHandler(im, filename, worker_id, np) ==
    IF filename = "None" THEN <<"stream">>
    ELSE IF im = "estimate" THEN <<"file", LogFileEstimate(filename, worker_id, np)>>
    ELSE <<"file", LogFileParamSE(filename, worker_id, np)>>

\* The pool runs processes 1..num_processes side by side; processes have
\* pairwise distinct pids.
InitLog ==
    /\ impl \in Impls
    /\ num_processes \in 1..MaxProcs
    /\ RunIdle
    /\ DataIdle
    /\ ShareIdle
    /\ RespIdle
    /\ EnumIdle
    /\ logpath \in {"None", "log"}
    /\ log_pid \in {f \in [Workers -> 1..MaxPid] : \A w, x \in Workers : w # x => f[w] # f[x]}
    /\ log_handler = [w \in Workers |-> <<>>]
    /\ InterpIdle

\* Pool(initializer=init_logging, initargs=...): a new pool process runs
\* init_logging before it takes tasks
init_logging(w) ==
    /\ w <= num_processes
    /\ log_handler[w] = <<>>
    /\ log_handler' = [log_handler EXCEPT ![w] =
           [logger |-> log_pid[w],
            handler |-> LogHandler(impl, logpath, log_pid[w], num_processes)]]
    /\ UNCHANGED <<cfgVars, dispVars, poolVars, fitVars, dataVars, shareVars, respVars, enumVars, interpVars, logpath, log_pid>>

NextLog == \E w \in Workers : init_logging(w)

SpecLog == InitLog /\ [][NextLog]_vars

\* ========================================================== interpolation
MaxVolt == 3   \* reference voltages are 1..MaxVolt; energy bin v is at index v

\* ------------------------------------------------- floats, kept as fractions
\* <<"fin", n, d>> is n / d in lowest terms with d > 0, <<"inf", s, 1>> is
\* the infinity of sign s, <<"nan", 0, 1>> is NaN
Mag(x) == IF x < 0 THEN 0 - x ELSE x
Sgn(x) == IF x < 0 THEN 0 - 1 ELSE IF x > 0 THEN 1 ELSE 0

RECURSIVE Gcd(_, _)
Gcd(a, b) == IF b = 0 THEN a ELSE Gcd(b, a % b)

Q(n, d)  == LET g == Gcd(Mag(n), d) IN <<"fin", n \div g, d \div g>>
QNaN     == <<"nan", 0, 1>>
QInf(sg) == <<"inf", sg, 1>>

QNeg(a) == IF a[1] = "nan" THEN QNaN ELSE <<a[1], 0 - a[2], a[3]>>

QAdd(a, b) ==
    IF a[1] = "nan" \/ b[1] = "nan" THEN QNaN
    ELSE IF a[1] = "inf" /\ b[1] = "inf" THEN (IF a[2] = b[2] THEN a ELSE QNaN)
    ELSE IF a[1] = "inf" THEN a
    ELSE IF b[1] = "inf" THEN b
    ELSE Q(a[2] * b[3] + b[2] * a[3], a[3] * b[3])

QSub(a, b) == QAdd(a, QNeg(b))

QMul(a, b) ==
    IF a[1] = "nan" \/ b[1] = "nan" THEN QNaN
    ELSE IF a[1] = "inf" \/ b[1] = "inf"
         THEN (IF Sgn(a[2]) * Sgn(b[2]) = 0 THEN QNaN ELSE QInf(Sgn(a[2]) * Sgn(b[2])))
    ELSE Q(a[2] * b[2], a[3] * b[3])

\* float division: x / 0 is an infinity, 0 / 0 is NaN, nothing is raised
QDiv(a, b) ==
    IF a[1] = "nan" \/ b[1] = "nan" THEN QNaN
    ELSE IF a[1] = "inf" THEN (IF b[1] = "inf" THEN QNaN
                               ELSE QInf(a[2] * (IF b[2] < 0 THEN 0 - 1 ELSE 1)))
    ELSE IF b[1] = "inf" THEN Q(0, 1)
    ELSE IF b[2] = 0 THEN (IF a[2] = 0 THEN QNaN ELSE QInf(Sgn(a[2])))
    ELSE Q(a[2] * b[3] * Sgn(b[2]), a[3] * Mag(b[2]))

\* a clamp that lets everything through
QNoClamp(a) == a

\* torch.clamp(x, min=0) / np.clip(x, 0, None) on one sample: NaN stays NaN
QClamp0(a) == IF a[1] = "nan" THEN QNaN ELSE IF a[2] < 0 THEN Q(0, 1) ELSE a

\* ------------------------------------------------------------- the tables
SampleVals == {0 - 1, 1}

\* sorted, strictly increasing reference voltages
VoltageLists ==
    {vl \in UNION {[1..n -> 1..MaxVolt] : n \in 1..MaxVolt} :
        \A k \in 1..(Len(vl) - 1) : vl[k] < vl[k + 1]}

\* one spectrum per reference voltage, zero from its own voltage on; a
\* spectrum is the sequence of its samples, bin v at position v + 1
SpectrumFor(v) ==
    {[b \in 1..(MaxVolt + 1) |-> IF b - 1 >= v THEN 0 ELSE g[b]] : g \in [1..v -> SampleVals]}

RECURSIVE SpectraFor(_)
SpectraFor(vl) ==
    IF vl = <<>> THEN {<<>>}
    ELSE {<<f>> \o rest : f \in SpectrumFor(Head(vl)), rest \in SpectraFor(Tail(vl))}

\* seq[p] of Python: a negative index counts from the end
PyIndex(seq, p) == IF p < 0 THEN seq[Len(seq) + p + 1] ELSE seq[p + 1]

\* np.searchsorted(a, v, side='right')
searchsorted_right(a, qn) == Cardinality({k \in 1..Len(a) : a[k] * Den <= qn})

\* np.searchsorted(a, v): side='left', the number of entries below v
searchsorted(a, qn) == Cardinality({k \in 1..Len(a) : a[k] * Den < qn})

\* ------------------------------------------------------ interp_src_spectra
\* What a call does: the bracket it selects (index, v0, f0 and, unless it
\* returns the last spectrum, v1, f1), then either the spectrum it returns or
\* the exception it raises.  interp_voltage is qn / Den.
interp_src_spectra(vl, sl, qn, tm) ==
    LET index == searchsorted(vl, qn)
        v0 == PyIndex(vl, index - 1)
        f0 == PyIndex(sl, index - 1)
        base == [index |-> index, v0 |-> v0, f0 |-> f0, v1 |-> 0, f1 |-> <<>>,
                 rr |-> QNaN, status |-> "returned", value |-> <<>>]
    IN
    IF index >= Len(vl)
    THEN [base EXCEPT !.value = [b \in 1..Len(f0) |-> QClamp0(Q(f0[b], 1))]]
    ELSE
    LET v1 == vl[index + 1]
        f1 == sl[index + 1]
        sel == [base EXCEPT !.v1 = v1, !.f1 = f1]
    IN
    IF ~tm
    THEN \* f0.clone(): f0 is a numpy array, which has no clone()
         [sel EXCEPT !.status = "AttributeError"]
    ELSE
    LET \* for v in range(v0, v1): f0_modified[v] = -r / (1 - r) * f1[v]
        f0_modified ==
            [b \in 1..Len(f0) |->
                IF (b - 1) \in v0..(v1 - 1)
                THEN LET r == QDiv(Q((b - 1) - v0, 1), Q(v1 - v0, 1))
                     IN QMul(QDiv(QNeg(r), QSub(Q(1, 1), r)), Q(f1[b], 1))
                ELSE Q(f0[b], 1)]
        rr == QDiv(QSub(Q(qn, Den), Q(v0, 1)), Q(v1 - v0, 1))
        interpolated_values ==
            [b \in 1..Len(f0) |->
                QAdd(QMul(rr, Q(f1[b], 1)), QMul(QSub(Q(1, 1), rr), f0_modified[b]))]
    IN [sel EXCEPT !.rr = rr,
                   !.value = [b \in 1..Len(f0) |-> QClamp0(interpolated_values[b])]]

\* the attributes a Source_Model instance has after __init__
Source_Model_attrs ==
    {"source", "volt_lower", "volt_scale", "toa_lower", "toa_scale",
     "normalized_voltage", "normalized_takeoff_angle"}

\* takeoff_angle_conversion_factor calls philibert_absorption_correction_factor
\* (voltage, takeOffAngle, energies) with two arguments
takeoff_angle_conversion_factor(voltage, takeOffAngle_cur, takeOffAngle_new) ==
    [status |-> "TypeError"]

\* Source_Model.forward after the spectrum src_spec has been looked up:
\* the arguments of takeoff_angle_conversion_factor are evaluated first,
\* self.voltage among them
forward(src_spec, n_toa, b) ==
    IF "voltage" \notin Source_Model_attrs
    THEN [status |-> "AttributeError"]
    ELSE takeoff_angle_conversion_factor("voltage", "takeoff_angle_cur",
                                         get_takeoff_angle(n_toa, b))

InitInterp ==
    /\ impl = "paramSE"
    /\ num_processes = 1
    /\ RunIdle
    /\ DataIdle
    /\ ShareIdle
    /\ RespIdle
    /\ EnumIdle
    /\ LogIdle
    /\ voltage_list \in VoltageLists
    /\ src_spec_list \in SpectraFor(voltage_list)
    /\ interp_voltage \in 0..((MaxVolt + 1) * Den)
    /\ torch_mode \in BOOLEAN
    /\ interp_out = <<>>
    /\ fwd_out = <<>>

\* a call interp_src_spectra(voltage_list, src_spec_list, interp_voltage, torch_mode)
Interpolate ==
    /\ interp_out = <<>>
    /\ fwd_out = <<>>
    /\ interp_out' = interp_src_spectra(voltage_list, src_spec_list, interp_voltage, torch_mode)
    /\ UNCHANGED <<cfgVars, dispVars, poolVars, fitVars, dataVars, shareVars, respVars, enumVars, logVars,
                   voltage_list, src_spec_list, interp_voltage, torch_mode, fwd_out>>

\* a call Source_Model.forward(energies) of a source whose clamped voltage
\* get_voltage() is interp_voltage: the look-up in torch mode (line 170),
\* then the take-off angle factor (line 171)
Forward ==
    /\ interp_out = <<>>
    /\ fwd_out = <<>>
    /\ torch_mode
    /\ \E n \in NRange, b \in BoundSet : get_voltage(n, b) = interp_voltage
    /\ interp_out' = interp_src_spectra(voltage_list, src_spec_list, interp_voltage, TRUE)
    /\ \E n_toa \in NRange, b \in BoundSet : fwd_out' = forward(interp_out'.value, n_toa, b)
    /\ UNCHANGED <<cfgVars, dispVars, poolVars, fitVars, dataVars, shareVars, respVars, enumVars, logVars,
                   voltage_list, src_spec_list, interp_voltage, torch_mode>>

NextInterp == Interpolate \/ Forward

SpecInterp == InitInterp /\ [][NextInterp]_vars

\* ====================================================== composite response
MaxBins    == 3   \* the energy grid is 1..MaxBins, one unit between bins
MaxPhotons == 2   \* a source spectrum sample is 0..MaxPhotons

\* torch.trapz(y, energies) on that grid: sum of (y[k-1] + y[k]) / 2
RECURSIVE trapz_upto(_, _)
trapz_upto(y, k) ==
    IF k <= 1 THEN Q(0, 1)
    ELSE QAdd(trapz_upto(y, k - 1), QDiv(QAdd(y[k - 1], y[k]), Q(2, 1)))

trapz(y) == trapz_upto(y, Len(y))

\* gen_fltr_res(energies, fltr_mat, th) = exp(-mu(E) * th), with mu(E_k)
\* standing at k: a rational curve with the same value 1 at th = 0, the same
\* range (0, 1] and the same monotonic fall in th and mu (th is in 1 / Den)
gen_fltr_res(th) == [k \in 1..MaxBins |-> Q(Den, Den + k * th)]

\* gen_scint_cvt_func(energies, scint_mat, th) = 1 - exp(-mu(E) * th): a
\* rational curve with the same value 0 at th = 0 and the same range [0, 1)
gen_scint_cvt_func(th) == [k \in 1..MaxBins |-> Q(k * th, Den + k * th)]

\* the source spectra a look-up returns: non-negative samples
SourceSpectra == [1..MaxBins -> {Q(c, 1) : c \in 0..MaxPhotons}]

\* total_sder = src_func * fltr_func * scint_func       (spec = spec * cm(energies))
total_sder(sf, ff, cf) == [k \in 1..MaxBins |-> QMul(QMul(sf[k], ff[k]), cf[k])]

\* total_sder /= torch.trapz(total_sder, self.energies)  (spec /= torch.trapz(spec, energies))
normalize(total) == [k \in 1..MaxBins |-> QDiv(total[k], trapz(total))]

\* spec_distrb_energy_resp.forward up to the renormalisation, and the same
\* lines of fit_cell's closure: in paramSE the first component evaluated is a
\* Source_Model, whose forward raises
composite_response(im, sf, ff, cf) ==
    IF ForwardRaises(im)
    THEN [status |-> "AttributeError"]
    ELSE LET total == normalize(total_sder(sf, ff, cf))
         IN [status |-> "returned", total_sder |-> total, integral |-> trapz(total)]

\* one source, one filter and one scintillator, each with its parameter
\* anywhere the optimizer can leave it and any Bound
InitResp ==
    /\ impl \in Impls
    /\ num_processes = 1
    /\ RunIdle
    /\ DataIdle
    /\ ShareIdle
    /\ EnumIdle
    /\ LogIdle
    /\ InterpIdle
    /\ src_func \in SourceSpectra
    /\ \E n \in NRange, b \in BoundSet : fltr_func = gen_fltr_res(get_fltr_th(n, b))
    /\ \E n \in NRange, b \in BoundSet : scint_func = gen_scint_cvt_func(get_scint_th(n, b))
    /\ resp_out = <<>>

\* one evaluation of the composite response
Respond ==
    /\ resp_out = <<>>
    /\ src_func # <<>>
    /\ resp_out' = composite_response(impl, src_func, fltr_func, scint_func)
    /\ UNCHANGED <<cfgVars, dispVars, poolVars, fitVars, dataVars, shareVars, enumVars, logVars, interpVars,
                   src_func, fltr_func, scint_func>>

NextResp == Respond

SpecResp == InitResp /\ [][NextResp]_vars

\* ======================================================= shared components
MaxData   == 2   \* most datasets of one fit
MaxComp   == 2   \* the component models of one kind have indices 1..MaxComp
MaxPasses == 1   \* most passes of the fit loop that are followed

\* list(set(...)): the members of a set of numbers, each once
SetToSeq(S) ==
    [k \in 1..Cardinality(S) |-> CHOOSE x \in S : Cardinality({y \in S : y < x}) = k - 1]

\* fit_cell, line 70: every component model of every dataset is deep-copied
\* on its own, so dataset d works on its own copy of component mc[d]
deepcopy_models(mc) == [d \in 1..Len(mc) |-> [copy |-> d, of |-> mc[d]]]

\* cm.set_estimates(params) (xspec.models): the Parameter of a component model
\* becomes the entry of the one params dictionary that is named after the
\* component, whichever copy of the component it is
set_estimates(cm) == cm.of

\* the Parameters of every component model of every dataset, one after another
parameters_concat(cms) == [d \in 1..Len(cms) |-> set_estimates(cms[d])]

\* fit_cell, lines 72-77: parameters += list(cm.parameters()) over every
\* component model, then parameters = list(set(parameters))
parameters_list(cms) == SetToSeq({set_estimates(cms[d]) : d \in 1..Len(cms)})

\* spec_distrb_energy_resp.__init__ and model.parameters(): one module, and
\* one Parameter, per component model of the ModuleList
module_parameters == [c \in 1..MaxComp |-> c]

\* the entries of the optimizer's list that are Parameter o
UpdatesOf(o) == {k \in 1..Len(opt_params) : opt_params[k] = o}

\* datasets that do or do not share a component model; a Parameter starts at
\* the normalized initial value, here at either end of [0, 1]
InitShare ==
    /\ impl \in Impls
    /\ num_processes = 1
    /\ RunIdle
    /\ DataIdle
    /\ EnumIdle
    /\ LogIdle
    /\ InterpIdle
    /\ RespIdle
    /\ \E nd \in 1..MaxData : model_combination \in [1..nd -> 1..MaxComp]
    /\ cm_param = <<>>
    /\ param_data \in [1..MaxComp -> {0, Den}]
    /\ opt_params = <<>>
    /\ share_pc = "idle"
    /\ trans_reads = <<>>
    /\ nupdates = [c \in 1..MaxComp |-> 0]
    /\ nsteps = 0

\* the model and the optimizer of one case: fit_cell lines 70-90,
\* param_based_spec_estimate_cell lines 449-461
BuildModel ==
    /\ share_pc = "idle"
    /\ model_combination # <<>>
    /\ cm_param' = IF impl = "estimate"
                   THEN [d \in 1..Len(model_combination) |->
                            set_estimates(deepcopy_models(model_combination)[d])]
                   ELSE [d \in 1..Len(model_combination) |->
                            module_parameters[model_combination[d]]]
    /\ opt_params' = IF impl = "estimate"
                     THEN parameters_list(deepcopy_models(model_combination))
                     ELSE module_parameters
    /\ share_pc' = "built"
    /\ UNCHANGED <<cfgVars, dispVars, poolVars, fitVars, dataVars, enumVars, logVars, interpVars, respVars,
                   model_combination, param_data, trans_reads, nupdates, nsteps>>

\* closure(): the predicted transmission of every dataset, from the Parameter
\* its component model holds; in paramSE the first model(FF, mc) raises
Closure ==
    /\ share_pc \in {"built", "stepped"}
    /\ IF ForwardRaises(impl)
       THEN /\ share_pc' = "raised"
            /\ UNCHANGED trans_reads
       ELSE /\ share_pc' = "evaluated"
            /\ trans_reads' = [d \in 1..Len(model_combination) |->
                                  <<cm_param[d], param_data[cm_param[d]]>>]
    /\ UNCHANGED <<cfgVars, dispVars, poolVars, fitVars, dataVars, enumVars, logVars, interpVars, respVars,
                   model_combination, cm_param, param_data, opt_params, nupdates, nsteps>>

\* optimizer.step(): every entry of the optimizer's list is updated, in turn
OptimizerStep ==
    /\ share_pc = "evaluated"
    /\ nsteps < MaxPasses
    /\ \E newdata \in [1..Len(opt_params) -> NRange] :
          param_data' = [o \in 1..MaxComp |->
              IF UpdatesOf(o) = {} THEN param_data[o]
              ELSE newdata[CHOOSE k \in UpdatesOf(o) : \A j \in UpdatesOf(o) : j <= k]]
    /\ nupdates' = [o \in 1..MaxComp |-> nupdates[o] + Cardinality(UpdatesOf(o))]
    /\ nsteps' = nsteps + 1
    /\ share_pc' = "stepped"
    /\ UNCHANGED <<cfgVars, dispVars, poolVars, fitVars, dataVars, enumVars, logVars, interpVars, respVars,
                   model_combination, cm_param, opt_params, trans_reads>>

NextShare == BuildModel \/ Closure \/ OptimizerStep

SpecShare == InitShare /\ [][NextShare]_vars

\* ================================================================ add_data
\* the arrays a caller passes as nrad (rows of samples) and as weight
NradArrays   == {<<<<1>>>>, <<<<1, 2>>>>, <<<<2>>, <<0>>>>}
WeightArrays == {"None", <<<<2, 1>>>>}

\* a.reshape((-1, 1)): the samples of every row, one after another
RECURSIVE reshape_col(_)
reshape_col(a) == IF a = <<>> THEN <<>> ELSE Head(a) \o reshape_col(Tail(a))

\* a weight of 1 for every sample
unit_weight(nrad) == [k \in 1..Len(nrad) |-> Q(1, 1)]

\* weight = 1.0 / self.nrads[-1]
default_weight(nrad) == [k \in 1..Len(nrad) |-> QDiv(Q(1, 1), Q(nrad[k], 1))]

\* torch.tensor(weight.reshape((-1, 1)), dtype=torch.float32)
given_weight(weight) ==
    LET col == reshape_col(weight) IN [k \in 1..Len(col) |-> Q(col[k], 1)]

\* the smallest of a set of lengths
MinLen(S) == CHOOSE n \in S : \A m \in S : n <= m

\* fit_cell's closure: zip(nrads, forward_matrices, weights, spec_models)
\* gives one (yy, FF, ww, component_models) per position all four lists have
zip_datasets(ys, Fs, ws, cms) ==
    [k \in 1..MinLen({Len(ys), Len(Fs), Len(ws), Len(cms)}) |-> <<ys[k], Fs[k], ws[k], cms[k]>>]

\* Estimate.__init__: four empty lists (num_sp_datasets is not set)
InitData ==
    /\ impl = "estimate"
    /\ num_processes \in 1..MaxProcs
    /\ RunIdle
    /\ EnumIdle
    /\ LogIdle
    /\ InterpIdle
    /\ RespIdle
    /\ ShareIdle
    /\ DataIdle

\* Estimate.add_data(nrad, forward_matrix, component_models, weight)
add_data(nrad, forward_matrix, component_models, weight) ==
    /\ Len(add_calls) < MaxData
    /\ nrads' = Append(nrads, reshape_col(nrad))
    /\ num_sp_datasets' = Len(nrads')
    /\ forward_matrices' = Append(forward_matrices, forward_matrix)
    /\ spec_models' = Append(spec_models, component_models)
    /\ weights' = Append(weights, IF weight = "None"
                                  THEN default_weight(nrads'[Len(nrads')])
                                  ELSE given_weight(weight))
    /\ add_calls' = Append(add_calls, [nrad |-> nrad, forward_matrix |-> forward_matrix,
                                       component_models |-> component_models, weight |-> weight])
    /\ UNCHANGED <<cfgVars, dispVars, poolVars, fitVars, enumVars, logVars, interpVars, respVars, shareVars>>

NextData ==
    \E nrad \in NradArrays, forward_matrix \in 1..MaxMat,
       component_models \in 1..MaxComp, weight \in WeightArrays :
        add_data(nrad, forward_matrix, component_models, weight)

SpecData == InitData /\ [][NextData]_vars

\* ================================================================ properties
Abs(x) == IF x < 0 THEN 0 - x ELSE x

\* the value each bound-clamping getter reads for a raw normalized value n
GetterValues(n, b) ==
    {get_voltage(n, b), get_takeoff_angle(n, b), get_fltr_th(n, b), get_scint_th(n, b)}

\* the dispatcher waits in r.get() for a task whose worker process has exited
WaitsForever ==
    /\ dpc = "gather"
    /\ gathered < ncases
    /\ tstat[gathered + 1] = "lost"

\* C1: whatever raw normalized value the optimizer steps have produced, below
\* 0 and above 1 included, each getter (get_voltage, get_takeoff_angle,
\* get_fltr_th, get_scint_th) returns a value in [lower, upper] of the Bound:
\* lower when n <= 0, upper when n >= 1.
C1_GettersWithinBound ==
    \A i \in 1..ncases : \A b \in BoundSet : \A v \in GetterValues(parameters[i], b) :
        /\ b.lower * Den <= v
        /\ v <= b.upper * Den
        /\ parameters[i] <= 0 => v = b.lower * Den
        /\ parameters[i] >= Den => v = b.upper * Den

\* optimizer steps have taken the raw normalized value of a case above 1
C1_Witness ==
    \E i \in 1..ncases : steps[i] > 1 /\ parameters[i] > Den

\* C2: after all cases have completed, the selected case has a final cost
\* less than or equal to the final cost of every other case.
C2_BestHasLeastCost ==
    dpc = "done" =>
        \A j \in 1..ncases : j # best => FLe(cost_list[best], cost_list[j])

\* C3: a case that ended in Diverged is never selected as best when another
\* case of the run ended without diverging.
C3_DivergedNeverBest ==
    (dpc = "done" /\ \E j \in 1..ncases : fstate[j] # "Diverged")
        => fstate[best] # "Diverged"

\* C4: a case that diverges at iteration k returns stop iteration k together
\* with a finite cost.
C4_DivergedReturnsFiniteCost ==
    \A i \in 1..ncases :
        fstate[i] = "Diverged" =>
            /\ result[i][1] = iter[i]
            /\ IsFinite(result[i][2])

\* C5: when a case diverges the run is not aborted: no task ends with an
\* error or is lost, the run goes on until the dispatcher is done, and then
\* every case is in a terminal state of its own, its result has been
\* gathered, and a best case is selected.
C5_DivergenceIsContained ==
    (\E i \in 1..ncases : fstate[i] = "Diverged") =>
        /\ dpc # "raised"
        /\ \A j \in 1..ncases : tstat[j] \notin {"error", "lost"}
        /\ dpc # "done" => ENABLED Next
        /\ dpc = "done" =>
              /\ gathered = ncases
              /\ best \in 1..ncases
              /\ \A j \in 1..ncases : fstate[j] \in FitTerminal /\ result[j] # <<>>

\* the run is done, one case diverged and another one converged
C5_Witness ==
    /\ dpc = "done"
    /\ \E i, j \in 1..ncases : fstate[i] = "Diverged" /\ fstate[j] = "Converged"

\* C6: with an unsupported optimizer_type the dispatcher call ends with a
\* failure: it neither selects a best case nor waits forever for results.
C6_UnsupportedOptimizerAborts ==
    ~OptimizerSupported(optimizer_type) => dpc # "done" /\ ~WaitsForever

\* C7: with an unsupported loss_type the run aborts with an error raised to
\* the caller: no optimizer step is applied in any case, no best case is
\* selected, Estimate.params is not set, and the dispatcher does not wait
\* forever.
C7_UnsupportedLossAborts ==
    ~LossSupported(impl, loss_type) =>
        /\ \A i \in 1..ncases : steps[i] = 0
        /\ best = 0
        /\ est_params = <<>>
        /\ dpc # "done"
        /\ ~WaitsForever

\* C8: the fit loop runs at most max_iterations passes, is over after pass
\* max_iterations, returns exactly when it is in one of Converged,
\* MaxIterationsReached, Diverged, and the stop iteration it returns is the
\* pass it stopped in, in 1..max_iterations.
C8_LoopTerminatesWithinBudget ==
    \A i \in 1..ncases :
        /\ iter[i] <= max_iterations
        /\ fstate[i] = "Iterating" => iter[i] < max_iterations
        /\ tstat[i] = "ready" <=> fstate[i] \in FitTerminal
        /\ fstate[i] \in FitTerminal =>
              /\ result[i] # <<>>
              /\ result[i][1] = iter[i]
              /\ result[i][1] \in 1..max_iterations

\* the loop converged in its last pass, which is not the first
C8_Witness ==
    \E i \in 1..ncases :
        fstate[i] = "Converged" /\ iter[i] = max_iterations /\ max_iterations > 1

\* C9: a case that used up the iteration budget returns normally, with stop
\* iteration max_iterations, its final cost and its parameter state; the run
\* is not aborted, and when its cost is below every other case's it is the
\* case selected.
C9_MaxIterationsCaseTakesPart ==
    \A i \in 1..ncases :
        fstate[i] = "MaxIterationsReached" =>
            /\ tstat[i] = "ready"
            /\ result[i][1] = max_iterations
            /\ result[i][2] \in CostVals
            /\ result[i][3] = parameters[i]
            /\ dpc # "raised"
            /\ (dpc = "done" /\ \A j \in 1..ncases : j # i => FLt(result[i][2], result[j][2]))
                  => best = i

\* a case that reached max_iterations was selected against a converged one
C9_Witness ==
    /\ dpc = "done"
    /\ fstate[best] = "MaxIterationsReached"
    /\ \E j \in 1..ncases : fstate[j] = "Converged" /\ FLt(result[best][2], result[j][2])

\* C10: after each optimizer step the loop goes to Converged if and only if
\* the change of the clamped physical value of the parameter (read through
\* the getters, for any Bound) is below stop_threshold.
C10_ConvergedIffPhysicalChangeBelowThreshold ==
    [][\A i \in 1..ncases :
          steps'[i] = steps[i] + 1 =>
              \A b \in BoundSet :
                  (fstate'[i] = "Converged") <=>
                      (\A k \in 1..4 :
                          LET g(n) == <<get_voltage(n, b), get_takeoff_angle(n, b),
                                        get_fltr_th(n, b), get_scint_th(n, b)>>[k]
                          IN Abs(g(parameters'[i]) - g(parameters[i])) < stop_threshold)]_vars

\* C11: with stop_threshold = 0 the small-update stop never fires, also when
\* a step leaves every clamped parameter unchanged: every case that does not
\* diverge runs exactly max_iterations passes.
C11_ZeroThresholdRunsMaxIterations ==
    stop_threshold = 0 =>
        \A i \in 1..ncases :
            fstate[i] \in FitTerminal \ {"Diverged"} => result[i][1] = max_iterations

\* the slots of a run, filters first, and the candidates of each
AllSlots == possible_filters_combinations \o possible_scintilators_combinations

\* the bound components of a submitted case, in slot order
CaseSlots(c) == IF impl = "paramSE" THEN c[1] \o c[2] ELSE c

\* C12: the submitted cases are in one-to-one correspondence with the
\* Cartesian product of the candidate materials over all filter and
\* scintillator slots: each case binds every slot to one of that slot's own
\* candidates, no combination is missing or repeated, and the number of
\* cases submitted is the product of the per-slot candidate counts.
C12_CasesAreCartesianProduct ==
    result_objects # <<>> =>
        LET slots == AllSlots
            n == Len(slots)
            cases == [k \in 1..Len(result_objects) |-> CaseSlots(result_objects[k])]
            \* every way of picking one candidate per slot
            combinations ==
                {[s \in 1..n |-> slots[s][ch[s]]] :
                    ch \in {c \in [1..n -> 1..MaxMat] : \A s \in 1..n : c[s] <= Len(slots[s])}}
        IN
        /\ Len(result_objects) = SeqProd(slots)
        /\ \A k \in 1..Len(cases) :
              /\ Len(cases[k]) = n
              /\ \A s \in 1..n : \E j \in 1..Len(slots[s]) : cases[k][s] = slots[s][j]
        /\ Cardinality({cases[k] : k \in 1..Len(cases)}) = Len(cases)
        /\ {cases[k] : k \in 1..Len(cases)} = combinations
        /\ impl = "paramSE" =>
              \A k \in 1..Len(result_objects) :
                  /\ Len(result_objects[k][1]) = Len(filters)
                  /\ Len(result_objects[k][2]) = Len(scintillators)

\* two filter slots and two scintillator slots with two candidates each
\* have been expanded and submitted
C12_Witness ==
    /\ Len(result_objects) = 16
    /\ Len(filters) = 2
    /\ Len(scintillators) = 2

\* everything the fit of case j holds: its loop state, its model's parameter,
\* its cost and gradient, its result
CaseFitState(j) ==
    <<fstate[j], iter[j], parameters[j], cur_cost[j], cur_grad_bad[j], steps[j], result[j]>>

C14_SelectionAfterAllGathered ==
    /\ best # 0 => dpc = "done"
    /\ \A k \in 1..gathered : tstat[k] = "ready" /\ result[k] # <<>>
    /\ dpc = "done" =>
          /\ gathered = ncases
          /\ \A j \in 1..ncases :
                tstat[j] = "ready" /\ fstate[j] \in FitTerminal /\ result[j] # <<>>
    /\ (\E w \in Workers : wstate[w] = "terminated") => dpc \in {"done", "raised"}

\* the selection was made over the gathered results of two cases and picked
\* the second
C14_Witness ==
    /\ dpc = "done"
    /\ ncases > 1
    /\ best = 2

\* C15: two distinct pool processes never log to the same logger or the same
\* log file: for every num_processes and every pair of distinct process ids,
\* init_logging gives the two processes loggers of different names and log
\* files of different names.
C15_LogFilesDistinctPerProcess ==
    \A w, x \in Workers :
        (w # x /\ log_handler[w] # <<>> /\ log_handler[x] # <<>>) =>
            /\ log_handler[w].logger # log_handler[x].logger
            /\ log_handler[w].handler[1] = "file" =>
                  log_handler[w].handler # log_handler[x].handler

\* a reference spectrum with its negative samples replaced by zero
Floored(f) == [b \in 1..Len(f) |-> IF f[b] < 0 THEN Q(0, 1) ELSE Q(f[b], 1)]

\* C16: for every reference voltage v_i of the table, the smallest and the
\* largest included, interp_src_spectra called with the query voltage exactly
\* v_i returns the reference spectrum f_i floored at zero, with no
\* contribution from any other spectrum.
C16_ExactReferenceReturnsItsSpectrum ==
    \A i \in 1..Len(voltage_list) :
        (interp_out # <<>> /\ interp_voltage = voltage_list[i] * Den) =>
            /\ interp_out.status = "returned"
            /\ interp_out.value = Floored(src_spec_list[i])

\* C17: for a query voltage above the largest reference voltage,
\* interp_src_spectra returns the last reference spectrum with its negative
\* samples replaced by zero, in both modes; nothing is extrapolated.
C17_AboveLargestReturnsLastSpectrum ==
    (interp_out # <<>> /\ interp_voltage > voltage_list[Len(voltage_list)] * Den) =>
        /\ interp_out.status = "returned"
        /\ interp_out.index = Len(voltage_list)
        /\ interp_out.value = Floored(src_spec_list[Len(src_spec_list)])

\* the call in numpy mode, above the largest of three reference voltages,
\* the last spectrum having a negative sample
C17_Witness ==
    /\ interp_out # <<>>
    /\ ~torch_mode
    /\ Len(voltage_list) = 3
    /\ interp_voltage > voltage_list[3] * Den
    /\ \E b \in 1..Len(src_spec_list[3]) : src_spec_list[3][b] < 0

\* the query voltage has been looked up and lies within the reference range:
\* at most the largest reference voltage, and above the smallest or at it
InRange(strictlyAbove) ==
    /\ interp_out # <<>>
    /\ interp_voltage <= voltage_list[Len(voltage_list)] * Den
    /\ IF strictlyAbove THEN voltage_list[1] * Den < interp_voltage
                        ELSE voltage_list[1] * Den <= interp_voltage

\* C18 as claimed: for every query voltage inside the reference range the
\* index i the function computes satisfies v_{i-1} <= v_q < v_i, and the two
\* spectra it blends are f_{i-1} (modified) and f_i.
C18_BracketClosedBelow ==
    InRange(FALSE) =>
        LET i == interp_out.index IN
        /\ i \in 1..(Len(voltage_list) - 1)
        /\ voltage_list[i] * Den <= interp_voltage
        /\ interp_voltage < voltage_list[i + 1] * Den
        /\ interp_out.f0 = src_spec_list[i]
        /\ interp_out.f1 = src_spec_list[i + 1]

\* C18, amended: for every query voltage v_q above the smallest and up to the
\* largest reference voltage the index i the function computes satisfies
\* v_{i-1} < v_q <= v_i, and the two spectra it selects for the blend are
\* f_{i-1} (to be modified) and f_i, with v0 = v_{i-1} and v1 = v_i.
C18_BracketClosedAbove ==
    InRange(TRUE) =>
        LET i == interp_out.index IN
        /\ i \in 1..(Len(voltage_list) - 1)
        /\ voltage_list[i] * Den < interp_voltage
        /\ interp_voltage <= voltage_list[i + 1] * Den
        /\ interp_out.v0 = voltage_list[i]
        /\ interp_out.f0 = src_spec_list[i]
        /\ interp_out.v1 = voltage_list[i + 1]
        /\ interp_out.f1 = src_spec_list[i + 1]

\* the query is exactly the middle one of three reference voltages and the
\* function has blended
C18_Witness ==
    /\ interp_out # <<>>
    /\ interp_out.status = "returned"
    /\ Len(voltage_list) = 3
    /\ interp_voltage = voltage_list[2] * Den

\* x >= 0 on floats: false for NaN
QNonNegative(a) == a[1] # "nan" /\ a[2] >= 0

\* C19: every sample of the spectrum interp_src_spectra returns is
\* non-negative, for every query voltage and every reference table, in torch
\* mode and in numpy mode.
C19_ReturnedSamplesNonNegative ==
    (interp_out # <<>> /\ interp_out.status = "returned") =>
        \A b \in 1..Len(interp_out.value) : QNonNegative(interp_out.value[b])

\* C20: Source_Model.forward(energies) returns a spectrum: the spectrum
\* interp_src_spectra gives for the current clamped voltage, multiplied by
\* the ratio of the Philibert factors of the current and the reference
\* take-off angle.
C20_ForwardReturnsCorrectedSpectrum ==
    fwd_out # <<>> =>
        /\ fwd_out.status = "returned"
        /\ fwd_out.src_spec = interp_out.value

\* C21: whatever the parameter values within their bounds, the composite
\* response is returned and its trapezoidal integral over the energy grid,
\* after the renormalisation, is 1 -- in spec_distrb_energy_resp.forward and
\* in fit_cell's closure alike.
C21_NormalizedResponseIntegratesToOne ==
    resp_out # <<>> =>
        /\ resp_out.status = "returned"
        /\ resp_out.integral = Q(1, 1)

MinCostCases ==
    {b \in 1..ncases :
        /\ \A j \in 1..ncases : ~FLt(cost_list[j], cost_list[b])
        /\ isnan(cost_list[b]) => \A j \in 1..ncases : isnan(cost_list[j])}

\* C23: after Estimate.fit has returned, get_params() returns the parameter
\* set of a minimum-cost case, and every component model of every dataset is
\* set to that same parameter set.
C23_FitStoresBestParams ==
    (dpc = "done" /\ impl = "estimate") =>
        /\ est_params # <<>>
        /\ \E b \in MinCostCases : est_params[1] = result[b][3]
        /\ est_params[2] = est_params[1]

\* case i goes through one pass of its fit loop in this step, and its
\* closure has returned a cost
PassOf(i) == fstate[i] = "Iterating" /\ iter'[i] = iter[i] + 1 /\ fstate'[i] # "Raised"

\* C24: in every iteration, when the cost evaluated at the start of the
\* iteration is not finite (NaN or an infinity) or a gradient is not finite,
\* the loop ends in Diverged in that same iteration: it never applies a step
\* and goes on with a non-finite cost.
C24_NonFiniteCostDiverges ==
    [][\A i \in Cases :
          (PassOf(i) /\ (~IsFinite(cur_cost[i]) \/ cur_grad_bad[i]))
              => (fstate'[i] = "Diverged" /\ steps'[i] = steps[i])]_vars

\* C25: in the iteration in which divergence is detected no optimizer step
\* is applied: the parameters are left as they were at the start of that
\* iteration, and they are the parameter state the loop returns.
C25_DivergedReturnsStartState ==
    [][\A i \in Cases :
          (PassOf(i) /\ fstate'[i] = "Diverged")
              => /\ parameters'[i] = parameters[i]
                 /\ steps'[i] = steps[i]
                 /\ result'[i][3] = parameters[i]]_vars

\* a case has diverged after a step had moved its parameter
C25_Witness ==
    \E i \in 1..ncases :
        /\ fstate[i] = "Diverged"
        /\ steps[i] >= 1
        /\ result[i][3] # 0

\* C26: the final cost a loop returns when it ends in Converged or in
\* MaxIterationsReached is the cost of the parameter state it returns, the
\* state after the last optimizer step, for 'Adam' and 'NNAT_LBFGS' alike.
C26_ReturnedCostIsOfReturnedState ==
    \A i \in 1..ncases :
        fstate[i] \in {"Converged", "MaxIterationsReached"} =>
            /\ result[i][3] = parameters[i]
            /\ result[i][2] = cur_cost[i]

\* C27: the i-th entry of the gathered result list is the result of the
\* i-th enumerated case, whatever the order in which the cases finish and
\* whatever num_processes is, so the index np.argmin finds identifies the
\* case that produced that cost (and, in Estimate.fit, the stored params).
C27_GatheredOrderIsCaseOrder ==
    /\ \A k \in 1..gathered : results(k) = result[k] /\ tstat[k] = "ready"
    /\ dpc = "done" =>
          /\ cost_list[best] = result[best][2]
          /\ impl = "estimate" => est_params[1] = result[best][3]

\* two cases ran on two pool processes, the first case took more iterations
\* than the second, both results were gathered and the second case is best
C27_Witness ==
    /\ dpc = "done"
    /\ ncases = 2
    /\ num_processes = 2
    /\ gathered = 2
    /\ iter[1] > iter[2]
    /\ best = 2
    /\ result[1] # result[2]

\* 0 <= x <= 1 on floats
QInUnit(a) == a[1] = "fin" /\ 0 <= a[2] /\ a[2] <= a[3]

\* C28: for every query voltage interp_src_spectra accepts and blends for,
\* the queries below the smallest reference voltage included, the two
\* reference entries it blends are adjacent in the table (the lower bracket
\* is the entry just before the upper one, never one from the other end of
\* the table) and the blending weight rr lies in [0, 1].
C28_BracketsAdjacentAndWeightInUnit ==
    (interp_out # <<>> /\ interp_out.status = "returned" /\ interp_out.f1 # <<>>) =>
        LET i == interp_out.index IN
        /\ i >= 1
        /\ interp_out.v0 = voltage_list[i]
        /\ interp_out.f0 = src_spec_list[i]
        /\ interp_out.v1 = voltage_list[i + 1]
        /\ QInUnit(interp_out.rr)

\* C29: after any sequence of add_data calls the lists nrads,
\* forward_matrices, spec_models and weights have the same length, the number
\* of calls made, which is num_sp_datasets once a call has been made; their
\* k-th entries are those of the k-th call; the cost of fit_cell therefore
\* has one term per added dataset; and the weight stored for a call without
\* a weight is 1 / nrad, sample by sample.
C29_DatasetListsStayAligned ==
    LET n == Len(add_calls) IN
    /\ Len(nrads) = n /\ Len(forward_matrices) = n
    /\ Len(spec_models) = n /\ Len(weights) = n
    /\ num_sp_datasets = IF n = 0 THEN "unset" ELSE n
    /\ Len(zip_datasets(nrads, forward_matrices, weights, spec_models)) = n
    /\ \A k \in 1..n :
          LET call == add_calls[k] IN
          /\ nrads[k] = reshape_col(call.nrad)
          /\ forward_matrices[k] = call.forward_matrix
          /\ spec_models[k] = call.component_models
          /\ zip_datasets(nrads, forward_matrices, weights, spec_models)[k]
                 = <<nrads[k], forward_matrices[k], weights[k], spec_models[k]>>
          /\ call.weight # "None" => weights[k] = given_weight(call.weight)
          /\ call.weight = "None" =>
                /\ Len(weights[k]) = Len(nrads[k])
                /\ \A j \in 1..Len(nrads[k]) :
                      IF nrads[k][j] = 0 THEN weights[k][j] = QInf(1)
                      ELSE QMul(weights[k][j], Q(nrads[k][j], 1)) = Q(1, 1)

\* two datasets have been added, the first without a weight and with a
\* sample other than 1, the second with a weight of its own
C29_Witness ==
    /\ Len(add_calls) = 2
    /\ add_calls[1].weight = "None"
    /\ \E j \in 1..Len(nrads[1]) : nrads[1][j] = 2
    /\ add_calls[2].weight # "None"
    /\ add_calls[1].forward_matrix # add_calls[2].forward_matrix

====
